---- MODULE Spec2Model ----
(***************************************************************************)
(* A model of bel7-axum: the ApiError classifier (src/errors/api_error.rs), *)
(* the pagination helpers (src/pagination.rs), the static-file handlers     *)
(* (src/static_files.rs) and WsConfig (src/websocket.rs).                   *)
(*                                                                         *)
(* The library has no state of its own: every function is called on a      *)
(* value built for one request.  The model therefore records, per caller,  *)
(* the last call made (the method and its arguments) and what it returned. *)
(***************************************************************************)
EXTENDS Integers, Sequences, FiniteSets, TLC

VARIABLES
    err_call,         \* per request: the ApiError method called and its receiver
    err_ret,          \* per request: what that call returned
    overflow_checks,  \* build profile: is `+` on u64 checked (debug) or wrapping (release)
    page_call,        \* the last pagination call and its arguments
    page_ret,         \* what it returned, or Panicked
    f_calls,          \* the arguments the closure given to map was called with, in order
    static_call,      \* the last static-file request: the asset set E and the uri
    static_ret,       \* the response it got
    ws,               \* the WsConfig value a caller is building
    ws_start,         \* the value it started from
    ws_set,           \* per field, the argument of the last setter called on it
    client            \* a client walking a paginated list page by page

vars == <<err_call, err_ret, overflow_checks, page_call, page_ret, f_calls,
          static_call, static_ret, ws, ws_start, ws_set, client>>

err_vars == <<err_call, err_ret>>
page_vars == <<page_call, page_ret, f_calls>>
static_vars == <<static_call, static_ret>>
ws_vars == <<ws, ws_start, ws_set>>

(***************************************************************************)
(* Bounds                                                                  *)
(***************************************************************************)
\* longest message wrapped in an ApiError
MaxMsgLen == 1

\* u64, scaled down: an unsigned integer of WordBits bits
WordBits == 3

\* longest Vec<T> given to a PaginatedResponse
MaxLen == 2

\* longest request path, in characters after the first '/'
MaxPathLen == 3

\* largest timeout (seconds) and message size (bytes) given to a WsConfig,
\* next to the defaults
MaxSetting == 2

\* the items a Vec<T> holds
Items == {"x", "y"}

\* characters a message is made of; the double quote is one JSON must escape
Alphabet == {"a", "\""}

\* two requests in flight: enough to compare any two responses
Requests == {"req1", "req2"}

RECURSIVE SeqsUpTo(_, _)
SeqsUpTo(S, n) ==
    IF n = 0 THEN {<<>>}
    ELSE LET shorter == SeqsUpTo(S, n - 1)
         IN  shorter \cup {Append(s, x) : s \in {t \in shorter : Len(t) = n - 1}, x \in S}

Messages == SeqsUpTo(Alphabet, MaxMsgLen)

(***************************************************************************)
(* Option<T>: None is the empty sequence, Some(x) the one-element sequence *)
(***************************************************************************)
None == <<>>
Some(x) == <<x>>
unwrap_or(opt, default) == IF opt = None THEN default ELSE opt[1]

(***************************************************************************)
(* errors/api_error.rs                                                     *)
(***************************************************************************)
Kinds == {"BadRequest", "Unauthorized", "Forbidden", "NotFound", "Conflict",
          "ValidationError", "Internal", "ServiceUnavailable"}

\* enum ApiError: a variant and the String it wraps
ApiError == [kind : Kinds, msg : Messages]

\* http::StatusCode constants named by status_code
BAD_REQUEST == 400
UNAUTHORIZED == 401
FORBIDDEN == 403
NOT_FOUND == 404
CONFLICT == 409
UNPROCESSABLE_ENTITY == 422
INTERNAL_SERVER_ERROR == 500
SERVICE_UNAVAILABLE == 503

\* a slip in the table: ValidationError answered as a plain 400
status_code_validation_400(self) ==
    CASE self.kind = "BadRequest" -> BAD_REQUEST
      [] self.kind = "Unauthorized" -> UNAUTHORIZED
      [] self.kind = "Forbidden" -> FORBIDDEN
      [] self.kind = "NotFound" -> NOT_FOUND
      [] self.kind = "Conflict" -> CONFLICT
      [] self.kind = "ValidationError" -> BAD_REQUEST
      [] self.kind = "Internal" -> INTERNAL_SERVER_ERROR
      [] self.kind = "ServiceUnavailable" -> SERVICE_UNAVAILABLE

status_code(self) ==
    CASE self.kind = "BadRequest" -> BAD_REQUEST
      [] self.kind = "Unauthorized" -> UNAUTHORIZED
      [] self.kind = "Forbidden" -> FORBIDDEN
      [] self.kind = "NotFound" -> NOT_FOUND
      [] self.kind = "Conflict" -> CONFLICT
      [] self.kind = "ValidationError" -> UNPROCESSABLE_ENTITY
      [] self.kind = "Internal" -> INTERNAL_SERVER_ERROR
      [] self.kind = "ServiceUnavailable" -> SERVICE_UNAVAILABLE

error_label(self) ==
    CASE self.kind = "BadRequest" -> "Bad Request"
      [] self.kind = "Unauthorized" -> "Unauthorized"
      [] self.kind = "Forbidden" -> "Forbidden"
      [] self.kind = "NotFound" -> "Not Found"
      [] self.kind = "Conflict" -> "Conflict"
      [] self.kind = "ValidationError" -> "Validation Error"
      [] self.kind = "Internal" -> "Internal Server Error"
      [] self.kind = "ServiceUnavailable" -> "Service Unavailable"

\* http::StatusCode::is_client_error / is_server_error: the numeric range
StatusCode_is_client_error(code) == 400 <= code /\ code < 500
StatusCode_is_server_error(code) == 500 <= code /\ code < 600

is_client_error(self) == StatusCode_is_client_error(status_code(self))

\* a separate table in place of the status code's range: it forgets 503
is_server_error_own_table(self) == self.kind = "Internal"

is_server_error(self) == StatusCode_is_server_error(status_code(self))

into_message(self) == self.msg

\* serde_json's string escaping: a double quote or a backslash gets a backslash
RECURSIVE JsonEscape(_)
JsonEscape(s) ==
    IF s = <<>> THEN <<>>
    ELSE (IF Head(s) \in {"\"", "\\"} THEN <<"\\", Head(s)>> ELSE <<Head(s)>>)
         \o JsonEscape(Tail(s))

JsonString(s) == <<"\"">> \o JsonEscape(s) \o <<"\"">>

\* ErrorResponse::new
ErrorResponse_new(error) == [error |-> error, details |-> None]

\* ErrorResponse::with_details
ErrorResponse_with_details(error, details) == [error |-> error, details |-> Some(details)]

\* the values `error` is given: the labels of error_label
Labels == {error_label(e) : e \in ApiError}

\* the ErrorResponse values the two constructors build
ErrorResponses ==
    {ErrorResponse_new(l) : l \in Labels}
    \cup {ErrorResponse_with_details(l, m) : l \in Labels, m \in Messages}

\* skip_serializing_if left out: an absent details is written as null
SerializeErrorResponse_writes_null(body) ==
    <<"{", "error", ":", body.error, ",", "details", ":">>
    \o (IF body.details = None THEN <<"null">> ELSE JsonString(body.details[1]))
    \o <<"}">>

\* #[derive(Serialize)] on ErrorResponse, as the sequence of JSON tokens written:
\* "error" always, "details" skipped when it is None
SerializeErrorResponse(body) ==
    <<"{", "error", ":", body.error>>
    \o (IF body.details = None
        THEN <<>>
        ELSE <<",", "details", ":">> \o JsonString(body.details[1]))
    \o <<"}">>

\* details withheld from every server error, not from Internal alone
into_response_hides_5xx(self) ==
    LET status == status_code(self)
        label == error_label(self)
        details == IF is_server_error(self) THEN None ELSE Some(into_message(self))
        body == [error |-> label, details |-> details]
    IN  [status |-> status, body |-> SerializeErrorResponse(body)]

\* the Internal case forgotten: the message is always sent
into_response_leaks(self) ==
    LET status == status_code(self)
        label == error_label(self)
        details == Some(into_message(self))
        body == [error |-> label, details |-> details]
    IN  [status |-> status, body |-> SerializeErrorResponse(body)]

\* impl IntoResponse for ApiError
into_response(self) ==
    LET status == status_code(self)
        label == error_label(self)
        details == IF self.kind = "Internal" THEN None ELSE Some(into_message(self))
        body == [error |-> label, details |-> details]
    IN  [status |-> status, body |-> SerializeErrorResponse(body)]

NoCall == [op |-> "none"]
NoRet == "none"
NoConfig == [by |-> "none"]

CallStatusCode(r) ==
    /\ err_call[r] = NoCall
    /\ \E e \in ApiError :
        /\ err_call' = [err_call EXCEPT ![r] = [op |-> "status_code", self |-> e]]
        /\ err_ret' = [err_ret EXCEPT ![r] = status_code(e)]
    /\ UNCHANGED <<overflow_checks, page_vars, static_vars, ws_vars, client>>

CallErrorLabel(r) ==
    /\ err_call[r] = NoCall
    /\ \E e \in ApiError :
        /\ err_call' = [err_call EXCEPT ![r] = [op |-> "error_label", self |-> e]]
        /\ err_ret' = [err_ret EXCEPT ![r] = error_label(e)]
    /\ UNCHANGED <<overflow_checks, page_vars, static_vars, ws_vars, client>>

CallIsClientError(r) ==
    /\ err_call[r] = NoCall
    /\ \E e \in ApiError :
        /\ err_call' = [err_call EXCEPT ![r] = [op |-> "is_client_error", self |-> e]]
        /\ err_ret' = [err_ret EXCEPT ![r] = is_client_error(e)]
    /\ UNCHANGED <<overflow_checks, page_vars, static_vars, ws_vars, client>>

CallIsServerError(r) ==
    /\ err_call[r] = NoCall
    /\ \E e \in ApiError :
        /\ err_call' = [err_call EXCEPT ![r] = [op |-> "is_server_error", self |-> e]]
        /\ err_ret' = [err_ret EXCEPT ![r] = is_server_error(e)]
    /\ UNCHANGED <<overflow_checks, page_vars, static_vars, ws_vars, client>>

CallIntoResponse(r) ==
    /\ err_call[r] = NoCall
    /\ \E e \in ApiError :
        /\ err_call' = [err_call EXCEPT ![r] = [op |-> "into_response", self |-> e]]
        /\ err_ret' = [err_ret EXCEPT ![r] = into_response(e)]
    /\ UNCHANGED <<overflow_checks, page_vars, static_vars, ws_vars, client>>

\* an ErrorResponse built by one of its constructors is serialized
CallSerialize(r) ==
    /\ err_call[r] = NoCall
    /\ \E body \in ErrorResponses :
        /\ err_call' = [err_call EXCEPT ![r] = [op |-> "serialize", self |-> body]]
        /\ err_ret' = [err_ret EXCEPT ![r] = SerializeErrorResponse(body)]
    /\ UNCHANGED <<overflow_checks, page_vars, static_vars, ws_vars, client>>

\* the request is answered and its values are dropped
Finish(r) ==
    /\ err_call[r] # NoCall
    /\ err_call' = [err_call EXCEPT ![r] = NoCall]
    /\ err_ret' = [err_ret EXCEPT ![r] = NoRet]
    /\ UNCHANGED <<overflow_checks, page_vars, static_vars, ws_vars, client>>

Init ==
    /\ err_call = [r \in Requests |-> NoCall]
    /\ err_ret = [r \in Requests |-> NoRet]
    /\ overflow_checks \in BOOLEAN
    /\ page_call = NoCall
    /\ page_ret = NoRet
    /\ f_calls = <<>>
    /\ static_call = NoCall
    /\ static_ret = NoRet
    /\ ws = NoConfig
    /\ ws_start = NoConfig
    /\ ws_set = [idle_timeout |-> <<>>, max_message_size |-> <<>>]
    /\ client = [pc |-> "idle"]

ErrNext ==
    \E r \in Requests :
        \/ CallStatusCode(r)
        \/ CallErrorLabel(r)
        \/ CallIsClientError(r)
        \/ CallIsServerError(r)
        \/ CallIntoResponse(r)
        \/ CallSerialize(r)
        \/ Finish(r)

ErrSpec == Init /\ [][ErrNext]_vars

(***************************************************************************)
(* pagination.rs                                                           *)
(***************************************************************************)
U64_MODULUS == 2 ^ WordBits
U64_MAX == U64_MODULUS - 1
U64 == 0..U64_MAX
OptionU64 == {None} \cup {Some(n) : n \in U64}

\* `n as u64`
as_u64(n) == n % U64_MODULUS

Vecs == SeqsUpTo(Items, MaxLen)

\* the closures given to map
Closures == [Items -> Items]

\* a panic unwinds out of the call: nothing is returned
Panicked == [panicked |-> TRUE]
IsPanic(v) == "panicked" \in DOMAIN v

\* the comparison made inclusive: offset + returned <= total
new_has_more_inclusive(data, total, limit, offset) ==
    LET returned == as_u64(Len(data))
        sum == offset + returned
    IN  IF sum > U64_MAX /\ overflow_checks
        THEN [panicked |-> TRUE]
        ELSE [data |-> data,
              total |-> total,
              limit |-> limit,
              offset |-> offset,
              has_more |-> (sum % U64_MODULUS) <= total]

\* PaginatedResponse::new.  `offset + returned` is a plain `+` on u64: with
\* overflow checks (debug builds) it panics when the sum does not fit, without
\* them (release builds) it wraps.
new(data, total, limit, offset) ==
    LET returned == as_u64(Len(data))
        sum == offset + returned
    IN  IF sum > U64_MAX /\ overflow_checks
        THEN Panicked
        ELSE [data |-> data,
              total |-> total,
              limit |-> limit,
              offset |-> offset,
              has_more |-> (sum % U64_MODULUS) < total]

\* has_more taken from the total alone, the returned count forgotten
single_page_has_more_from_total(data) ==
    LET total == as_u64(Len(data))
    IN  [data |-> data,
         total |-> total,
         limit |-> None,
         offset |-> 0,
         has_more |-> 0 < total]

\* PaginatedResponse::single_page
single_page(data) ==
    LET total == as_u64(Len(data))
    IN  [data |-> data,
         total |-> total,
         limit |-> None,
         offset |-> 0,
         has_more |-> FALSE]

\* self.data.into_iter().map(f).collect(): the iterator hands the items to f
\* one at a time from the front; `out` is the Vec collected, `calls` the
\* arguments f has seen
RECURSIVE IterMapCollect(_, _, _)
IterMapCollect(data, f, acc) ==
    IF data = <<>> THEN acc
    ELSE IterMapCollect(Tail(data), f,
                        [out |-> Append(acc.out, f[Head(data)]),
                         calls |-> Append(acc.calls, Head(data))])

RECURSIVE Reverse(_)
Reverse(s) == IF s = <<>> THEN <<>> ELSE Append(Reverse(Tail(s)), Head(s))

\* the items walked from the back (into_iter().rev())
map_run_from_back(self, f) ==
    IterMapCollect(Reverse(self.data), f, [out |-> <<>>, calls |-> <<>>])

map_run(self, f) == IterMapCollect(self.data, f, [out |-> <<>>, calls |-> <<>>])

\* PaginatedResponse::map
map(self, f) ==
    [data |-> map_run(self, f).out,
     total |-> self.total,
     limit |-> self.limit,
     offset |-> self.offset,
     has_more |-> self.has_more]

\* struct PaginationQuery
PaginationQuery == [limit : OptionU64, offset : OptionU64]

min(a, b) == IF a <= b THEN a ELSE b

\* the default taken but the clamp forgotten
effective_limit_unclamped(self, max) == unwrap_or(self.limit, max)

\* PaginationQuery::effective_limit
effective_limit(self, max) == min(unwrap_or(self.limit, max), max)

\* PaginationQuery::effective_offset
effective_offset(self) == unwrap_or(self.offset, 0)

IsResponse == page_call.op \in {"new", "single_page", "map"} /\ ~IsPanic(page_ret)

CallNew ==
    /\ page_call = NoCall
    /\ \E data \in Vecs, total \in U64, limit \in OptionU64, offset \in U64 :
        /\ page_call' = [op |-> "new", data |-> data, total |-> total,
                         limit |-> limit, offset |-> offset]
        /\ page_ret' = new(data, total, limit, offset)
    /\ f_calls' = <<>>
    /\ UNCHANGED <<overflow_checks, err_vars, static_vars, ws_vars, client>>

CallSinglePage ==
    /\ page_call = NoCall
    /\ \E data \in Vecs :
        /\ page_call' = [op |-> "single_page", data |-> data]
        /\ page_ret' = single_page(data)
    /\ f_calls' = <<>>
    /\ UNCHANGED <<overflow_checks, err_vars, static_vars, ws_vars, client>>

\* map consumes the response the caller holds
CallMap ==
    /\ IsResponse
    /\ \E f \in Closures :
        /\ page_call' = [op |-> "map", self |-> page_ret, f |-> f]
        /\ page_ret' = map(page_ret, f)
        /\ f_calls' = map_run(page_ret, f).calls
    /\ UNCHANGED <<overflow_checks, err_vars, static_vars, ws_vars, client>>

CallEffectiveLimit ==
    /\ page_call = NoCall
    /\ \E q \in PaginationQuery, max \in U64 :
        /\ page_call' = [op |-> "effective_limit", self |-> q, max |-> max]
        /\ page_ret' = effective_limit(q, max)
    /\ f_calls' = <<>>
    /\ UNCHANGED <<overflow_checks, err_vars, static_vars, ws_vars, client>>

CallEffectiveOffset ==
    /\ page_call = NoCall
    /\ \E q \in PaginationQuery :
        /\ page_call' = [op |-> "effective_offset", self |-> q]
        /\ page_ret' = effective_offset(q)
    /\ f_calls' = <<>>
    /\ UNCHANGED <<overflow_checks, err_vars, static_vars, ws_vars, client>>

\* the caller is done with the value it holds
Drop ==
    /\ page_call # NoCall
    /\ page_call' = NoCall
    /\ page_ret' = NoRet
    /\ f_calls' = <<>>
    /\ UNCHANGED <<overflow_checks, err_vars, static_vars, ws_vars, client>>

PageNext ==
    \/ CallNew
    \/ CallSinglePage
    \/ CallMap
    \/ CallEffectiveLimit
    \/ CallEffectiveOffset
    \/ Drop

PageSpec == Init /\ [][PageNext]_vars


(***************************************************************************)
(* static_files.rs                                                         *)
(*                                                                         *)
(* A path is a sequence of characters; "index" and "html" stand for those  *)
(* runs of letters, so that "index.html" is <<"index", ".", "html">>.      *)
(***************************************************************************)
PathChars == {"/", ".", "a", "index", "html"}

INDEX_HTML == <<"index", ".", "html">>

\* uri.path(): a '/' and what follows it
UriPaths == {<<"/">> \o p : p \in SeqsUpTo(PathChars, MaxPathLen)}

\* the keys an embedded folder may hold
AssetKeys == {INDEX_HTML, <<"a">>, <<"a", ".", "a">>}

\* the bytes embedded under a key
FileData(key) == <<"bytes of">> \o key

\* E: Embed, an asset collection fixed at build time: a table from keys to bytes
Embeds == {[k \in K |-> FileData(k)] : K \in SUBSET AssetKeys}

\* E::get(path)
Embed_get(E, path) == IF path \in DOMAIN E THEN Some(E[path]) ELSE None

RECURSIVE trim_start_matches(_, _)
trim_start_matches(str, c) ==
    IF str # <<>> /\ Head(str) = c THEN trim_start_matches(Tail(str), c) ELSE str

contains(str, c) == \E i \in 1..Len(str) : str[i] = c

OK == 200

\* the content type mime_guess derives from the path, left uninterpreted
mime_guess_from_path(path) == <<"mime_guess of">> \o path

file_response(path, data) ==
    [status |-> OK, content_type |-> mime_guess_from_path(path), body |-> data]

not_found_response ==
    [status |-> NOT_FOUND, content_type |-> <<>>, body |-> <<"Not Found">>]

\* no fallback, as in serve_static: a missing file is a 404
serve_embedded_file_exact(E, path) ==
    IF Embed_get(E, path) # None
    THEN file_response(path, Embed_get(E, path)[1])
    ELSE not_found_response

serve_embedded_file(E, path) ==
    IF Embed_get(E, path) # None
    THEN file_response(path, Embed_get(E, path)[1])
    ELSE IF Embed_get(E, INDEX_HTML) # None
         THEN [status |-> OK,
               content_type |-> <<"text/html; charset=utf-8">>,
               body |-> Embed_get(E, INDEX_HTML)[1]]
         ELSE not_found_response

serve_spa_static(E, uri) ==
    LET trimmed == trim_start_matches(uri, "/")
        path == IF trimmed = <<>> \/ ~contains(trimmed, ".") THEN INDEX_HTML ELSE trimmed
    IN  serve_embedded_file(E, path)

serve_static(E, uri) ==
    LET trimmed == trim_start_matches(uri, "/")
        path == IF trimmed = <<>> THEN INDEX_HTML ELSE trimmed
    IN  IF Embed_get(E, path) # None
        THEN file_response(path, Embed_get(E, path)[1])
        ELSE not_found_response

CallServeSpaStatic ==
    /\ static_call = NoCall
    /\ \E E \in Embeds, uri \in UriPaths :
        /\ static_call' = [op |-> "serve_spa_static", E |-> E, uri |-> uri]
        /\ static_ret' = serve_spa_static(E, uri)
    /\ UNCHANGED <<overflow_checks, err_vars, page_vars, ws_vars, client>>

CallServeStatic ==
    /\ static_call = NoCall
    /\ \E E \in Embeds, uri \in UriPaths :
        /\ static_call' = [op |-> "serve_static", E |-> E, uri |-> uri]
        /\ static_ret' = serve_static(E, uri)
    /\ UNCHANGED <<overflow_checks, err_vars, page_vars, ws_vars, client>>

\* the response is sent
StaticDone ==
    /\ static_call # NoCall
    /\ static_call' = NoCall
    /\ static_ret' = NoRet
    /\ UNCHANGED <<overflow_checks, err_vars, page_vars, ws_vars, client>>

StaticNext ==
    \/ CallServeSpaStatic
    \/ CallServeStatic
    \/ StaticDone

StaticSpec == Init /\ [][StaticNext]_vars

(***************************************************************************)
(* websocket.rs                                                            *)
(***************************************************************************)
\* Duration::from_secs(300), in seconds
DEFAULT_WS_IDLE_TIMEOUT == 300

DEFAULT_MAX_MESSAGE_SIZE == 100 * 1024

Durations == 0..MaxSetting \cup {DEFAULT_WS_IDLE_TIMEOUT}
Sizes == 0..MaxSetting \cup {DEFAULT_MAX_MESSAGE_SIZE}

\* impl Default for WsConfig
WsConfig_default ==
    [idle_timeout |-> DEFAULT_WS_IDLE_TIMEOUT,
     max_message_size |-> DEFAULT_MAX_MESSAGE_SIZE]

\* WsConfig::new
WsConfig_new(idle_timeout, max_message_size) ==
    [idle_timeout |-> idle_timeout, max_message_size |-> max_message_size]

\* the value rebuilt from the defaults: Self { idle_timeout: timeout, ..Default::default() }
with_idle_timeout_from_default(self, timeout) ==
    [WsConfig_default EXCEPT !.idle_timeout = timeout]

\* WsConfig::with_idle_timeout
with_idle_timeout(self, timeout) == [self EXCEPT !.idle_timeout = timeout]

\* WsConfig::with_max_message_size
with_max_message_size(self, size) == [self EXCEPT !.max_message_size = size]

NothingSet == [idle_timeout |-> None, max_message_size |-> None]

WsDefault ==
    /\ ws = NoConfig
    /\ ws' = WsConfig_default
    /\ ws_start' = [by |-> "default", config |-> WsConfig_default]
    /\ ws_set' = NothingSet
    /\ UNCHANGED <<overflow_checks, err_vars, page_vars, static_vars, client>>

WsNew ==
    /\ ws = NoConfig
    /\ \E t \in Durations, n \in Sizes :
        /\ ws' = WsConfig_new(t, n)
        /\ ws_start' = [by |-> "new", config |-> WsConfig_new(t, n)]
    /\ ws_set' = NothingSet
    /\ UNCHANGED <<overflow_checks, err_vars, page_vars, static_vars, client>>

WsWithIdleTimeout ==
    /\ ws # NoConfig
    /\ \E t \in Durations :
        /\ ws' = with_idle_timeout(ws, t)
        /\ ws_set' = [ws_set EXCEPT !.idle_timeout = Some(t)]
    /\ UNCHANGED <<ws_start, overflow_checks, err_vars, page_vars, static_vars, client>>

WsWithMaxMessageSize ==
    /\ ws # NoConfig
    /\ \E n \in Sizes :
        /\ ws' = with_max_message_size(ws, n)
        /\ ws_set' = [ws_set EXCEPT !.max_message_size = Some(n)]
    /\ UNCHANGED <<ws_start, overflow_checks, err_vars, page_vars, static_vars, client>>

\* the value is handed to the connection layer
WsDone ==
    /\ ws # NoConfig
    /\ ws' = NoConfig
    /\ ws_start' = NoConfig
    /\ ws_set' = NothingSet
    /\ UNCHANGED <<overflow_checks, err_vars, page_vars, static_vars, client>>

WsNext ==
    \/ WsDefault
    \/ WsNew
    \/ WsWithIdleTimeout
    \/ WsWithMaxMessageSize
    \/ WsDone

WsSpec == Init /\ [][WsNext]_vars

(***************************************************************************)
(* Paging through a list: a handler built from effective_limit,            *)
(* effective_offset and PaginatedResponse::new over a source of n items    *)
(* (numbered 1..n), and a client that follows has_more.                    *)
(***************************************************************************)
\* the items the source returns for (limit, offset): at most limit of them,
\* starting after the first offset items
SourcePage(n, limit, offset) ==
    LET left == IF n > offset THEN n - offset ELSE 0
        count == min(limit, left)
    IN  [i \in 1..count |-> offset + i]

\* the handler: clamp the query, fetch, wrap
ListHandler(n, q, max) ==
    LET limit == effective_limit(q, max)
        offset == effective_offset(q)
    IN  new(SourcePage(n, limit, offset), as_u64(n), Some(limit), offset)

\* the client asks for the first page of some list
StartPaging ==
    /\ client.pc = "idle"
    /\ \E n \in U64, limit \in {None} \cup {Some(l) : l \in 1..U64_MAX}, max \in 1..U64_MAX :
        client' = [pc |-> "paging", n |-> n, limit |-> limit, max |-> max,
                   offset |-> 0, received |-> <<>>]
    /\ UNCHANGED <<overflow_checks, err_vars, page_vars, static_vars, ws_vars>>

\* one request and its response: the client keeps the items and, while
\* has_more is set, moves its offset past them
FetchPage ==
    /\ client.pc = "paging"
    /\ LET q == [limit |-> client.limit, offset |-> Some(client.offset)]
           resp == ListHandler(client.n, q, client.max)
       IN  IF IsPanic(resp)
           THEN client' = [client EXCEPT !.pc = "failed"]
           ELSE client' = [client EXCEPT
                               !.received = @ \o resp.data,
                               !.offset = IF resp.has_more THEN @ + Len(resp.data) ELSE @,
                               !.pc = IF resp.has_more THEN "paging" ELSE "done"]
    /\ UNCHANGED <<overflow_checks, err_vars, page_vars, static_vars, ws_vars>>

PagingNext ==
    \/ StartPaging
    \/ FetchPage

\* the client's loop runs on while it has a page to ask for
PagingSpec == Init /\ [][PagingNext]_vars /\ WF_vars(FetchPage)

(***************************************************************************)
(* What a client reads back from a response body: the value of "details",  *)
(* parsed token by token as a JSON reader does.                            *)
(***************************************************************************)
\* the characters of a JSON string, read from just after its opening quote
\* up to the first quote that is not escaped
RECURSIVE ReadJsonString(_)
ReadJsonString(toks) ==
    IF toks = <<>> \/ Head(toks) = "\"" THEN <<>>
    ELSE IF Head(toks) = "\\" /\ Len(toks) >= 2
         THEN <<toks[2]>> \o ReadJsonString(Tail(Tail(toks)))
         ELSE <<Head(toks)>> \o ReadJsonString(Tail(toks))

\* the body's "details" as an Option: None when the object has no such key
ReadDetails(body) ==
    IF Len(body) >= 6 /\ body[5] = "," /\ body[6] = "details"
    THEN Some(ReadJsonString(SubSeq(body, 9, Len(body))))
    ELSE None

Responded(r) == err_call[r].op = "into_response"

\* C1: the body rendered by into_response has no details when the kind is
\* Internal, and details equal to exactly the wrapped message for each of
\* the other seven kinds.
C1_DetailsByKind ==
    \A r \in Requests :
        Responded(r) =>
            ReadDetails(err_ret[r].body) =
                (IF err_call[r].self.kind = "Internal"
                 THEN None
                 ELSE Some(err_call[r].self.msg))

\* a ServiceUnavailable error and an Internal one, each with a message that
\* needs escaping, have both been rendered
C1_Witness ==
    /\ Responded("req1") /\ Responded("req2")
    /\ err_call["req1"].self = [kind |-> "ServiceUnavailable", msg |-> <<"\"">>]
    /\ err_call["req2"].self = [kind |-> "Internal", msg |-> <<"\"">>]

\* C2: two Internal errors get the same response (status and serialized
\* body, the label in it) whatever messages they wrap.
C2_InternalMessageNotObservable ==
    \A r1, r2 \in Requests :
        /\ Responded(r1) /\ Responded(r2)
        /\ err_call[r1].self.kind = "Internal"
        /\ err_call[r2].self.kind = "Internal"
        => /\ err_ret[r1].status = err_ret[r2].status
           /\ err_ret[r1].body = err_ret[r2].body

\* two Internal errors with different messages have both been rendered
C2_Witness ==
    /\ Responded("req1") /\ Responded("req2")
    /\ err_call["req1"].self.kind = "Internal"
    /\ err_call["req2"].self.kind = "Internal"
    /\ err_call["req1"].self.msg # err_call["req2"].self.msg

\* the table of section 4.1
SpecStatus(kind) ==
    CASE kind = "BadRequest" -> 400
      [] kind = "Unauthorized" -> 401
      [] kind = "Forbidden" -> 403
      [] kind = "NotFound" -> 404
      [] kind = "Conflict" -> 409
      [] kind = "ValidationError" -> 422
      [] kind = "Internal" -> 500
      [] kind = "ServiceUnavailable" -> 503

\* C3: status_code returns the table's value for the kind, whatever the
\* message.
C3_StatusCodeTable ==
    \A r \in Requests :
        err_call[r].op = "status_code" =>
            err_ret[r] = SpecStatus(err_call[r].self.kind)

\* status_code has been called on two ValidationErrors with different messages
C3_Witness ==
    /\ err_call["req1"].op = "status_code"
    /\ err_call["req2"].op = "status_code"
    /\ err_call["req1"].self.kind = "ValidationError"
    /\ err_call["req2"].self.kind = "ValidationError"
    /\ err_call["req1"].self.msg # err_call["req2"].self.msg

ClientKinds == {"BadRequest", "Unauthorized", "Forbidden", "NotFound", "Conflict",
                "ValidationError"}

\* C4: is_client_error is true exactly for a status in 400..499 (the six 4xx
\* kinds), is_server_error exactly for one in 500..599 (Internal and
\* ServiceUnavailable), so on the same error exactly one of the two is true.
C4_ClassificationMatchesStatus ==
    /\ \A r \in Requests :
        /\ err_call[r].op = "is_client_error" =>
            /\ err_ret[r] = (status_code(err_call[r].self) \in 400..499)
            /\ err_ret[r] = (err_call[r].self.kind \in ClientKinds)
        /\ err_call[r].op = "is_server_error" =>
            /\ err_ret[r] = (status_code(err_call[r].self) \in 500..599)
            /\ err_ret[r] = (err_call[r].self.kind \in Kinds \ ClientKinds)
    /\ \A r1, r2 \in Requests :
        /\ err_call[r1].op = "is_client_error"
        /\ err_call[r2].op = "is_server_error"
        /\ err_call[r1].self = err_call[r2].self
        => err_ret[r1] # err_ret[r2]

\* both predicates have been asked of the same ServiceUnavailable error
C4_Witness ==
    /\ err_call["req1"].op = "is_client_error"
    /\ err_call["req2"].op = "is_server_error"
    /\ err_call["req1"].self = err_call["req2"].self
    /\ err_call["req1"].self.kind = "ServiceUnavailable"

\* the keys of a serialized object, read off its tokens
JsonKeys(body) ==
    {body[2]} \cup (IF Len(body) >= 6 /\ body[5] = "," THEN {body[6]} ELSE {})

\* C11: a serialized ErrorResponse has a "details" key exactly when details
\* is present (an absent details is left out, not written as null), and it
\* always has the "error" key, holding the label.
C11_DetailsKeyIffPresent ==
    \A r \in Requests :
        err_call[r].op = "serialize" =>
            /\ ("details" \in JsonKeys(err_ret[r])) = (err_call[r].self.details # None)
            /\ "error" \in JsonKeys(err_ret[r])
            /\ err_ret[r][4] = err_call[r].self.error
            /\ \A i \in 1..Len(err_ret[r]) : err_ret[r][i] # "null"

\* a response without details and one with details have both been serialized
C11_Witness ==
    /\ err_call["req1"].op = "serialize"
    /\ err_call["req2"].op = "serialize"
    /\ err_call["req1"].self = ErrorResponse_new("Internal Server Error")
    /\ err_call["req2"].self = ErrorResponse_with_details("Not Found", <<"a">>)

(***************************************************************************)
(* Pagination                                                              *)
(***************************************************************************)
\* C5: whatever the limit, new(items, total, limit, offset) returns a
\* response that stores its four arguments and whose has_more is
\* (offset + length(items) < total), the sum taken over the integers.
C5_NewHasMore ==
    (page_call.op = "new" /\ ~IsPanic(page_ret)) =>
        /\ page_ret.data = page_call.data
        /\ page_ret.total = page_call.total
        /\ page_ret.limit = page_call.limit
        /\ page_ret.offset = page_call.offset
        /\ page_ret.has_more = (page_call.offset + Len(page_call.data) < page_call.total)

\* C6: every response built by new or single_page and mapped any number of
\* times has has_more = (offset + length(data) < total).
C6_HasMoreInvariant ==
    IsResponse =>
        page_ret.has_more = (page_ret.offset + Len(page_ret.data) < page_ret.total)

\* C7: new returns a response for every total, offset and item count, also
\* when offset + item count does not fit in a u64.
C7_NewNeverFails ==
    page_call.op = "new" => ~IsPanic(page_ret)

\* C8: single_page(items) is the response with data = items, total =
\* length(items), offset = 0, no limit and has_more = false.
C8_SinglePage ==
    page_call.op = "single_page" =>
        page_ret = [data |-> page_call.data,
                    total |-> Len(page_call.data),
                    limit |-> None,
                    offset |-> 0,
                    has_more |-> FALSE]

\* single_page has been called on a list of two items
C8_Witness ==
    /\ page_call.op = "single_page"
    /\ page_call.data = <<"x", "y">>

\* C9: r.map(f) keeps total, limit, offset and has_more, its data is f of
\* each item of r.data at the same position, and f was called once per item,
\* in the order of r.data.
C9_MapFrame ==
    page_call.op = "map" =>
        LET r == page_call.self
            f == page_call.f
        IN  /\ page_ret.total = r.total
            /\ page_ret.limit = r.limit
            /\ page_ret.offset = r.offset
            /\ page_ret.has_more = r.has_more
            /\ Len(page_ret.data) = Len(r.data)
            /\ \A i \in 1..Len(r.data) : page_ret.data[i] = f[r.data[i]]
            /\ f_calls = r.data

\* a response with two different items, a limit and has_more set has been
\* mapped with a closure that swaps the items
C9_Witness ==
    /\ page_call.op = "map"
    /\ page_call.self.data = <<"x", "y">>
    /\ page_call.self.has_more
    /\ page_call.self.limit # None
    /\ page_call.f = [i \in Items |-> IF i = "x" THEN "y" ELSE "x"]

\* C10: effective_limit(q, max) is max when q.limit is absent and the
\* smaller of q.limit and max when it is supplied; it never exceeds max nor
\* a supplied limit, and a supplied limit below max is returned unchanged.
C10_EffectiveLimit ==
    page_call.op = "effective_limit" =>
        LET q == page_call.self
            max == page_call.max
        IN  /\ page_ret <= max
            /\ q.limit = None => page_ret = max
            /\ q.limit # None =>
                /\ page_ret = (IF q.limit[1] <= max THEN q.limit[1] ELSE max)
                /\ page_ret <= q.limit[1]
                /\ q.limit[1] < max => page_ret = q.limit[1]

\* effective_limit has been called with a supplied limit above max
C10_Witness ==
    /\ page_call.op = "effective_limit"
    /\ page_call.self.limit # None
    /\ page_call.self.limit[1] > page_call.max
    /\ page_call.max > 0

(***************************************************************************)
(* Static files                                                            *)
(***************************************************************************)
\* the key a request asks for: its path without the leading slashes
RequestedKey == trim_start_matches(static_call.uri, "/")

SpaRequest == static_call.op = "serve_spa_static"

\* the path ends in a file name of the form stem.ext
HasFileExtension(path) ==
    \E i \in 2..(Len(path) - 1) :
        /\ path[i] = "."
        /\ path[i - 1] \notin {"/", "."}
        /\ \A j \in (i + 1)..Len(path) : path[j] \notin {"/", "."}

\* C12 as stated: a request for a path that is not in the asset set and has
\* a file extension is answered 404, also when "index.html" is in the set.
C12_MissingFileWithExtensionIs404 ==
    (/\ SpaRequest
     /\ RequestedKey \notin DOMAIN static_call.E
     /\ HasFileExtension(RequestedKey))
    => static_ret.status = NOT_FOUND

\* C12 as amended: a request for a path that is not in the asset set is
\* answered 200 with the bytes of "index.html" whenever "index.html" is in
\* the set, with or without a file extension in the path, and 404 only when
\* "index.html" is missing too.
C12_MissingPathServesIndexElse404 ==
    (SpaRequest /\ RequestedKey \notin DOMAIN static_call.E) =>
        IF INDEX_HTML \in DOMAIN static_call.E
        THEN /\ static_ret.status = OK
             /\ static_ret.body = static_call.E[INDEX_HTML]
        ELSE static_ret.status = NOT_FOUND

\* a missing a.a has been requested from a set that holds index.html
C12_Witness ==
    /\ SpaRequest
    /\ RequestedKey = <<"a", ".", "a">>
    /\ DOMAIN static_call.E = {INDEX_HTML, <<"a">>}
    /\ static_ret.status = OK

\* C13: whenever the requested path is a key of the asset set, the response
\* is 200 with that key's bytes, also when the path has no file extension.
C13_ExactKeyServedFirst ==
    (SpaRequest /\ RequestedKey \in DOMAIN static_call.E) =>
        /\ static_ret.status = OK
        /\ static_ret.body = static_call.E[RequestedKey]

(***************************************************************************)
(* WsConfig                                                                *)
(***************************************************************************)
\* C14: WsConfig::default() is 300 seconds and 102400 bytes, and after any
\* sequence of with_idle_timeout and with_max_message_size calls each field
\* holds the argument of the last setter called for it, or the starting
\* value when that setter was never called.
C14_SettersChangeOwnField ==
    ws # NoConfig =>
        /\ ws_start.by = "default" =>
            ws_start.config = [idle_timeout |-> 300, max_message_size |-> 102400]
        /\ ws.idle_timeout =
            (IF ws_set.idle_timeout = <<>>
             THEN ws_start.config.idle_timeout
             ELSE ws_set.idle_timeout[1])
        /\ ws.max_message_size =
            (IF ws_set.max_message_size = <<>>
             THEN ws_start.config.max_message_size
             ELSE ws_set.max_message_size[1])

\* starting from the default, the size was set and the timeout was set after it
C14_Witness ==
    /\ ws # NoConfig
    /\ ws_start.by = "default"
    /\ ws_set = [idle_timeout |-> <<1>>, max_message_size |-> <<2>>]
    /\ ws = [idle_timeout |-> 1, max_message_size |-> 2]

(***************************************************************************)
(* Paging                                                                  *)
(***************************************************************************)
\* C15: a client that follows has_more from offset 0 eventually gets a page
\* with has_more = false, and has then received each of the n items exactly
\* once, in order; until then every page had has_more = true and the client
\* holds the first `offset` items.
C15_PagingTerminatesComplete ==
    /\ [](client.pc = "done" => client.received = [i \in 1..client.n |-> i])
    /\ [](client.pc = "paging" => client.received = [i \in 1..client.offset |-> i])
    /\ [](client.pc # "failed")
    /\ (client.pc = "paging" ~> client.pc = "done")

\* a list of U64_MAX items has been read to its end in pages of two
C15_Witness ==
    /\ client.pc = "done"
    /\ client.n = U64_MAX
    /\ client.limit = None
    /\ client.max = 2
    /\ Len(client.received) = U64_MAX

====
